---- MODULE Spec2Model ----
(***************************************************************************)
(* Meezan Bank Statement Visualizer (src/app.py).                          *)
(*                                                                         *)
(* The program is a Streamlit script: every user event (choosing a file,   *)
(* clearing the uploader, pressing the currency button) re-runs the whole  *)
(* script top to bottom in one thread.  The persistent state is the        *)
(* session's currency and the uploader's file; everything else is          *)
(* recomputed by the run and rendered on the page.                         *)
(*                                                                         *)
(* Numbers.  Amounts and balances are integers (PKR).  A displayed figure  *)
(* is an exact rational [n, d] standing for n / d, d > 0: the float        *)
(* arithmetic of the source is modelled exactly, without representation    *)
(* error.  Dates are integers yyyymmdd, which order as the timestamps and  *)
(* as the strings '%Y-%m-%d' do.  Text is a sequence of one-character      *)
(* strings.                                                                *)
(*                                                                         *)
(* Cells.  Every cell of a present column holds a value (no blank cells).  *)
(* A Date or Amount column that pandas cannot parse is flagged as a whole  *)
(* (badDate, badAmount): the parse fails for the column, whichever row is  *)
(* at fault, and none of its cells is read.  The cells of an absent or     *)
(* unparseable column are placeholders that no operator reads.             *)
(***************************************************************************)
EXTENDS Integers, Sequences, FiniteSets, TLC

\* ------------------------------------------------------------------ bounds
MaxRows == 2
MaxPayeeRows == 3
MaxTopN == 2

\* --------------------------------------------------------- program constants
EXCHANGE_RATE == 280
TopN == 20
DescriptionCut == 30
FallbackWords == 3
RecentRows == 100
DailyTail == 30

\* an optional value: None, or Some(x) whose value is x[1]
None == <<>>
Some(x) == <<x>>

Columns == {"Date", "Description", "Amount", "Available Balance"}
Required == {"Date", "Description", "Amount"}

\* ------------------------------------------------------------------- text
UpperCase == <<"A","B","C","D","E","F","G","H","I","J","K","L","M",
               "N","O","P","Q","R","S","T","U","V","W","X","Y","Z">>
LowerCase == <<"a","b","c","d","e","f","g","h","i","j","k","l","m",
               "n","o","p","q","r","s","t","u","v","w","x","y","z">>
\* code-point order of the characters the model uses
CodeOrder == <<" ", "-", ".", "0","1","2","3","4","5","6","7","8","9">>
             \o UpperCase \o LowerCase

Lower(c) ==
    IF \E i \in 1..Len(UpperCase) : UpperCase[i] = c
    THEN LowerCase[CHOOSE i \in 1..Len(UpperCase) : UpperCase[i] = c]
    ELSE c

Ord(c) == CHOOSE i \in 1..Len(CodeOrder) : CodeOrder[i] = c

IsSpace(c) == c = " "

\* Python's str < str: first differing code point, a proper prefix is smaller
RECURSIVE StrLess(_, _)
StrLess(a, b) ==
    IF b = <<>> THEN FALSE
    ELSE IF a = <<>> THEN TRUE
    ELSE IF Head(a) = Head(b) THEN StrLess(Tail(a), Tail(b))
    ELSE Ord(Head(a)) < Ord(Head(b))

\* str.strip()
RECURSIVE LStrip(_)
LStrip(s) == IF s # <<>> /\ IsSpace(Head(s)) THEN LStrip(Tail(s)) ELSE s
RECURSIVE RStrip(_)
RStrip(s) ==
    IF s # <<>> /\ IsSpace(s[Len(s)]) THEN RStrip(SubSeq(s, 1, Len(s) - 1)) ELSE s
Strip(s) == RStrip(LStrip(s))

\* the end of the run of non-whitespace characters that starts at i
RECURSIVE WordEnd(_, _)
WordEnd(t, i) == IF i <= Len(t) /\ ~IsSpace(t[i]) THEN WordEnd(t, i + 1) ELSE i

\* str.split(): the maximal runs of non-whitespace characters
RECURSIVE Split(_)
RECURSIVE SplitStripped(_, _)
SplitStripped(t, e) ==
    IF t = <<>> THEN <<>>
    ELSE <<SubSeq(t, 1, e - 1)>> \o Split(SubSeq(t, e, Len(t)))
Split(s) == SplitStripped(LStrip(s), WordEnd(LStrip(s), 1))

\* ' '.join(words)
RECURSIVE Join(_)
Join(ws) ==
    IF ws = <<>> THEN <<>>
    ELSE IF Len(ws) = 1 THEN ws[1]
    ELSE ws[1] \o <<" ">> \o Join(Tail(ws))

Ellipsis == <<".", ".", ".">>

\* The four patterns have the shape  LITERAL \s+ ([^-]+) ; these are the literals.
patterns ==
    << <<"M","o","n","e","y"," ","T","r","a","n","s","f","e","r","r","e","d"," ","t","o">>,
       <<"t","o">>,
       <<"P","a","i","d"," ","t","o">>,
       <<"T","r","a","n","s","f","e","r"," ","t","o">> >>

\* the end of the run of whitespace that starts at k (k itself when there is none)
RECURSIVE RunEnd(_, _)
RunEnd(d, k) == IF k <= Len(d) /\ IsSpace(d[k]) THEN RunEnd(d, k + 1) ELSE k

\* the end of the run of non-hyphen characters that starts at k
RECURSIVE CapEnd(_, _)
CapEnd(d, k) == IF k <= Len(d) /\ d[k] # "-" THEN CapEnd(d, k + 1) ELSE k

\* the literal matches at position i, ignoring case
LiteralAt(lit, d, i) ==
    /\ i + Len(lit) - 1 <= Len(d)
    /\ \A k \in 1..Len(lit) : Lower(d[i + k - 1]) = Lower(lit[k])

\* \s+ ([^-]+) from position j, where the whitespace run ends at e: the greedy
\* \s+ takes the whole run when a non-hyphen character follows it, and
\* otherwise gives its last whitespace back to [^-]+ (a run of 2 or more);
\* the capture is greedy up to the next hyphen or the end of the text
CaptureFrom(d, j, e) ==
    IF e - j >= 1 /\ e <= Len(d) /\ d[e] # "-" THEN Some(SubSeq(d, e, CapEnd(d, e) - 1))
    ELSE IF e - j >= 2 THEN Some(SubSeq(d, e - 1, CapEnd(d, e - 1) - 1))
    ELSE None

\* the capture of a match of LITERAL \s+ ([^-]+) that starts at i, or None
MatchAt(lit, d, i) ==
    IF LiteralAt(lit, d, i)
    THEN CaptureFrom(d, i + Len(lit), RunEnd(d, i + Len(lit)))
    ELSE None

OrElse(found, otherwise) == IF found # None THEN found ELSE otherwise

\* re.search(pattern, description, re.IGNORECASE): the leftmost match
RECURSIVE SearchFrom(_, _, _)
SearchFrom(lit, d, i) ==
    IF i > Len(d) THEN None
    ELSE OrElse(MatchAt(lit, d, i), SearchFrom(lit, d, i + 1))
Search(lit, d) == SearchFrom(lit, d, 1)

\* variant: the patterns are tried from the last to the first
RECURSIVE FirstMatch_reversed(_, _)
FirstMatch_reversed(p, description) ==
    IF p > Len(patterns) THEN None
    ELSE OrElse(FirstMatch_reversed(p + 1, description), Search(patterns[p], description))

\* lines 440-443: the match of the first pattern, in list order, that matches
RECURSIVE FirstMatch(_, _)
FirstMatch(p, description) ==
    IF p > Len(patterns) THEN None
    ELSE OrElse(Search(patterns[p], description), FirstMatch(p + 1, description))

\* variant: three words are already cut to three words and an ellipsis
Fallback_at_least_three(words, description) ==
    IF Len(words) >= FallbackWords
    THEN Join(SubSeq(words, 1, FallbackWords)) \o Ellipsis
    ELSE IF Len(description) > DescriptionCut
    THEN SubSeq(description, 1, DescriptionCut) \o Ellipsis
    ELSE description

\* lines 446-449
Fallback(words, description) ==
    IF Len(words) > FallbackWords
    THEN Join(SubSeq(words, 1, FallbackWords)) \o Ellipsis
    ELSE IF Len(description) > DescriptionCut
    THEN SubSeq(description, 1, DescriptionCut) \o Ellipsis
    ELSE description

PayeeOf(match, description) ==
    IF match # None THEN Strip(match[1]) ELSE Fallback(Split(description), description)

extract_payee(description) == PayeeOf(FirstMatch(1, description), description)

\* ---------------------------------------------------------------- numbers
Abs(x) == IF x < 0 THEN -x ELSE x

Rat(n, d) == [n |-> n, d |-> d]
RatLess(a, b) == a.n * b.d < b.n * a.d
RatEq(a, b) == a.n * b.d = b.n * a.d
RatDiv(a, k) == Rat(a.n, a.d * k)

\* round-half-to-even of a / b, b > 0 (numpy's rint on the scaled value)
RoundHalfEven(a, b) ==
    LET q == a \div b
        r == a % b
    IN  IF 2 * r < b THEN q
        ELSE IF 2 * r > b THEN q + 1
        ELSE IF q % 2 = 0 THEN q ELSE q + 1

\* Series.round(2): a figure with two decimals
Round2(v) == Rat(RoundHalfEven(v.n * 100, v.d), 100)

RECURSIVE SumSeq(_)
SumSeq(s) == IF s = <<>> THEN 0 ELSE Head(s) + SumSeq(Tail(s))

RECURSIVE SumOver(_, _)
SumOver(S, f) ==
    IF S = {} THEN 0
    ELSE LET x == CHOOSE y \in S : TRUE IN f[x] + SumOver(S \ {x}, f)

\* ascending order of a set of integers (groupby / sort_values on a key column)
RECURSIVE SortedInts(_)
SortedInts(S) ==
    IF S = {} THEN <<>>
    ELSE LET m == CHOOSE x \in S : \A y \in S : x <= y
         IN  <<m>> \o SortedInts(S \ {m})

\* ascending order of a set of texts (groupby on an object column)
RECURSIVE SortedStrs(_)
SortedStrs(S) ==
    IF S = {} THEN <<>>
    ELSE LET m == CHOOSE x \in S : \A y \in S \ {x} : StrLess(x, y)
         IN  <<m>> \o SortedStrs(S \ {m})

\* ------------------------------------------------------------------ input
Dates == {20230101, 20230102, 20230201, 20240101}
Amounts == {-2, -1, 0, 1}
Balances == {3, 5}
Desc_to_B == <<"t","o"," ","B">>
Desc_Paid_to_A == <<"P","a","i","d"," ","t","o"," ","A"," ","-","7">>
Desc_Transfer_to_A == <<"T","r","a","n","s","f","e","r"," ","T","O"," ","A","-","9">>
Desc_C == <<"C","a","s","h">>
Descriptions == {Desc_to_B}
PayeeDescriptions == {Desc_to_B, Desc_Paid_to_A, Desc_Transfer_to_A, Desc_C}

\* df['Date'].dt.year, .dt.strftime('%Y-%m'), .dt.strftime('%Y-%m-%d')
YearOf(date) == date \div 10000
MonthOf(date) == date \div 100
Date_Formatted(date) == date

\* the cells of a column: values when it is present and parsed, else a placeholder
CellsOf(readable, values, placeholder) == IF readable THEN values ELSE {placeholder}

RowsOf(cols, badDate, badAmount, descs) ==
    [Date : CellsOf("Date" \in cols /\ ~badDate, Dates, 0),
     Description : CellsOf("Description" \in cols, descs, <<>>),
     Amount : CellsOf("Amount" \in cols /\ ~badAmount, Amounts, 0),
     Balance : CellsOf("Available Balance" \in cols, Balances, 0)]

\* a CSV file as pd.read_csv returns it
File(cols, badDate, badAmount, rows) ==
    [cols |-> cols, badDate |-> badDate, badAmount |-> badAmount, rows |-> rows]

\* the unparseable flags a column set allows, and the row counts they allow
\* (an unparseable column has at least one cell)
BadFlags(cols, col) == IF col \in cols THEN BOOLEAN ELSE {FALSE}
RowCounts(badDate, badAmount, maxRows) == (IF badDate \/ badAmount THEN 1 ELSE 0)..maxRows

\* ------------------------------------------------------------- conversion
\* variant: an inverse conversion, the base target multiplies by the rate
convert_amount_inverse(cur, amount) ==
    IF cur = "USD" THEN RatDiv(amount, EXCHANGE_RATE) ELSE Rat(amount.n * EXCHANGE_RATE, amount.d)

\* lines 40-45 on any number: the argument is divided by the rate when the
\* selection is USD and returned as it is otherwise
convert_amount_of(cur, amount) ==
    IF cur = "USD" THEN RatDiv(amount, EXCHANGE_RATE) ELSE amount

\* lines 40-45 on a PKR amount of the table
convert_amount(cur, amount_pkr) == convert_amount_of(cur, Rat(amount_pkr, 1))

\* ------------------------------------------------------------------- load
\* lines 50-56: df['Date'] / df['Amount'] raise KeyError on a missing column,
\* pd.to_datetime raises on an unparseable date, and an Amount column that is
\* not numeric raises TypeError on the division by EXCHANGE_RATE
LoadRaises(f) ==
    \/ "Date" \notin f.cols
    \/ f.badDate
    \/ "Amount" \notin f.cols
    \/ f.badAmount

AmountOf(df) == [i \in DOMAIN df |-> df[i].Amount]

\* ---------------------------------------------------------------- summary
total_income_pkr(df) == SumOver({i \in DOMAIN df : df[i].Amount > 0}, AmountOf(df))
\* variant: the sum of the negative amounts without abs()
total_expenses_pkr_signed(df) ==
    SumOver({i \in DOMAIN df : df[i].Amount < 0}, AmountOf(df))
total_expenses_pkr(df) == Abs(SumOver({i \in DOMAIN df : df[i].Amount < 0}, AmountOf(df)))
net_flow_pkr(df) == SumOver(DOMAIN df, AmountOf(df))

Summary(df, cur) ==
    [transactions |-> Len(df),
     total_income_pkr |-> total_income_pkr(df),
     total_income |-> convert_amount(cur, total_income_pkr(df)),
     total_expenses_pkr |-> total_expenses_pkr(df),
     total_expenses |-> convert_amount(cur, total_expenses_pkr(df)),
     net_flow_pkr |-> net_flow_pkr(df),
     net_flow |-> convert_amount(cur, net_flow_pkr(df))]

\* ---------------------------------------------------------------- balance
\* df.sort_values('Date'): the default sort is not stable, so nothing in the
\* source fixes the order of rows of equal date.  An order is the sequence of
\* the original row labels (positions in the file).
Orders(df) ==
    {o \in [1..Len(df) -> 1..Len(df)] : \A j, k \in 1..Len(df) : j # k => o[j] # o[k]}
AscendingOrders(df) ==
    {o \in Orders(df) : \A k \in 1..(Len(df) - 1) : df[o[k]].Date <= df[o[k + 1]].Date}
\* df.sort_values('Date', ascending=False)
DescendingOrders(df) ==
    {o \in Orders(df) : \A k \in 1..(Len(df) - 1) : df[o[k]].Date >= df[o[k + 1]].Date}

\* The sort is a fixed algorithm: it orders rows of equal date the same way in
\* every run.  Which way depends on the build (numpy's quicksort keeps short
\* inputs in file order, its vectorised variants do not): the model takes the
\* two ways a pair of equal dates can come out, the same for every table.
TieOrders == {"kept", "reversed"}
TiesAsSorted(o, df, ties) ==
    \A k \in 1..(Len(df) - 1) :
        df[o[k]].Date = df[o[k + 1]].Date =>
            (IF ties = "kept" THEN o[k] < o[k + 1] ELSE o[k] > o[k + 1])

\* df.sort_values('Date') as the build computes it
sort_values(df, ties) == CHOOSE o \in AscendingOrders(df) : TiesAsSorted(o, df, ties)
\* df.sort_values('Date', ascending=False): pandas reverses the column, sorts
\* it ascending and reverses the result, so equal dates come out the same way
sort_values_descending(df, ties) ==
    CHOOSE o \in DescendingOrders(df) : TiesAsSorted(o, df, ties)

RECURSIVE cumsum(_)
cumsum(s) ==
    IF s = <<>> THEN <<>>
    ELSE LET front == cumsum(SubSeq(s, 1, Len(s) - 1))
         IN  Append(front, (IF front = <<>> THEN 0 ELSE front[Len(front)]) + s[Len(s)])

\* variant: the Available_Balance_USD column whatever the selection
balance_data_usd(df, order, cur) ==
    [k \in 1..Len(order) |-> Rat(df[order[k]].Balance, EXCHANGE_RATE)]

\* line 88: the recorded balances in df_sorted order, in the selected currency
balance_data(df, order, cur) ==
    [k \in 1..Len(order) |->
        IF cur = "USD" THEN Rat(df[order[k]].Balance, EXCHANGE_RATE)
        ELSE Rat(df[order[k]].Balance, 1)]

\* line 96: .iloc[-1] raises IndexError on a table without rows
BalanceRaises(f) == "Available Balance" \in f.cols /\ f.rows = <<>>

\* variant: .iloc[-1] of df instead of df_sorted
current_balance_pkr_unsorted(df, order) == df[Len(df)].Balance
current_balance_pkr(df, order) == df[order[Len(order)]].Balance

\* variant: the cumulative sum of df instead of df_sorted
running_balance_pkr_unsorted(df, order) == cumsum([k \in 1..Len(df) |-> df[k].Amount])

\* lines 101-102
running_balance_pkr(df, order) == cumsum([k \in 1..Len(order) |-> df[order[k]].Amount])
running_balance(df, order, cur) ==
    LET pkr == running_balance_pkr(df, order)
    IN  [k \in 1..Len(pkr) |->
            IF cur = "PKR" THEN Rat(pkr[k], 1) ELSE Rat(pkr[k], EXCHANGE_RATE)]

Balance(f, order, cur) ==
    IF "Available Balance" \in f.cols
    THEN [recorded |-> TRUE,
          dates |-> [k \in 1..Len(order) |-> f.rows[order[k]].Date],
          series |-> balance_data(f.rows, order, cur),
          current_balance |->
              IF BalanceRaises(f) THEN None
              ELSE Some(convert_amount(cur, current_balance_pkr(f.rows, order)))]
    ELSE [recorded |-> FALSE,
          dates |-> [k \in 1..Len(order) |-> f.rows[order[k]].Date],
          series |-> running_balance(f.rows, order, cur),
          current_balance |-> None]

\* ---------------------------------------------------------------- rollups
\* df[df['Amount'] < 0]: the labels of the expense rows
expense_rows(df) == {i \in DOMAIN df : df[i].Amount < 0}

\* variant: a group also takes the rows of the earlier keys
GroupBy_cumulative(rows, key) ==
    LET keys == SortedInts({key[i] : i \in rows})
    IN  [g \in 1..Len(keys) |-> [key |-> keys[g], members |-> {i \in rows : key[i] <= keys[g]}]]

\* .groupby(key): one group per key that occurs, in ascending key order
GroupBy(rows, key) ==
    LET keys == SortedInts({key[i] : i \in rows})
    IN  [g \in 1..Len(keys) |-> [key |-> keys[g], members |-> {i \in rows : key[i] = keys[g]}]]

\* .agg({'Amount': 'sum', 'Description': 'count'}).reset_index()
AggSumCount(df, groups) ==
    [g \in DOMAIN groups |->
        [key |-> groups[g].key,
         Amount |-> SumOver(groups[g].members, AmountOf(df)),
         Transaction_Count |-> Cardinality(groups[g].members)]]

\* .agg({'Amount': 'sum'}).reset_index()
AggSum(df, groups) ==
    [g \in DOMAIN groups |->
        [key |-> groups[g].key, Amount |-> SumOver(groups[g].members, AmountOf(df))]]

\* the Expenditure and Expenditure_Display columns (lines 127, 137)
WithExpenditure(frame, cur) ==
    [g \in DOMAIN frame |->
        frame[g] @@ [Expenditure |-> Abs(frame[g].Amount),
                     Expenditure_Display |-> convert_amount(cur, Abs(frame[g].Amount))]]

daily_expenses_pkr(df) ==
    AggSumCount(df, GroupBy(expense_rows(df), [i \in DOMAIN df |-> Date_Formatted(df[i].Date)]))
yearly_expenses_pkr(df) ==
    AggSumCount(df, GroupBy(expense_rows(df), [i \in DOMAIN df |-> YearOf(df[i].Date)]))
monthly_expenses_bar_pkr(df) ==
    AggSum(df, GroupBy(expense_rows(df), [i \in DOMAIN df |-> MonthOf(df[i].Date)]))

daily_expenses(df, cur) == WithExpenditure(daily_expenses_pkr(df), cur)
yearly_expenses(df, cur) == WithExpenditure(yearly_expenses_pkr(df), cur)
monthly_expenses_bar(df, cur) == WithExpenditure(monthly_expenses_bar_pkr(df), cur)

\* variant: the last position holding the maximum
idxmax_last(values) ==
    CHOOSE k \in DOMAIN values :
        /\ \A j \in DOMAIN values : ~RatLess(values[k], values[j])
        /\ \A j \in (k + 1)..Len(values) : RatLess(values[j], values[k])

\* Series.idxmax() / idxmin(): the first position holding the extreme value
idxmax(values) ==
    CHOOSE k \in DOMAIN values :
        /\ \A j \in DOMAIN values : ~RatLess(values[k], values[j])
        /\ \A j \in 1..(k - 1) : RatLess(values[j], values[k])
idxmin(values) ==
    CHOOSE k \in DOMAIN values :
        /\ \A j \in DOMAIN values : ~RatLess(values[j], values[k])
        /\ \A j \in 1..(k - 1) : RatLess(values[k], values[j])

\* Series.mean() of figures that share one denominator
MeanRat(values) ==
    Rat(SumSeq([k \in DOMAIN values |-> values[k].n]), values[1].d * Len(values))

Displayed(rollup) == [g \in DOMAIN rollup |-> rollup[g].Expenditure_Display]

\* DataFrame.tail(k)
TailRows(frame, k) ==
    IF Len(frame) <= k THEN frame ELSE SubSeq(frame, Len(frame) - k + 1, Len(frame))

\* variant: the average divides by one more than the count
ExpenseTable_off_by_one(rollup) ==
    [g \in DOMAIN rollup |->
        LET total == Round2(rollup[g].Expenditure_Display)
        IN  [key |-> rollup[g].key,
             Total_Expenditure |-> total,
             Number_of_Transactions |-> rollup[g].Transaction_Count,
             Average_per_Transaction |->
                 Round2(RatDiv(total, rollup[g].Transaction_Count + 1))]]

\* lines 191-194 and 350-352: the total rounded to 2 places, then the rounded
\* total divided by the count, rounded to 2 places again
ExpenseTable(rollup) ==
    [g \in DOMAIN rollup |->
        LET total == Round2(rollup[g].Expenditure_Display)
        IN  [key |-> rollup[g].key,
             Total_Expenditure |-> total,
             Number_of_Transactions |-> rollup[g].Transaction_Count,
             Average_per_Transaction |->
                 Round2(RatDiv(total, rollup[g].Transaction_Count))]]

daily_table(rollup) == ExpenseTable(TailRows(rollup, DailyTail))
yearly_table(rollup) == ExpenseTable(rollup)

\* the extremes of a non-empty rollup (lines 213-221, 334-342, 411-419)
Extremes(rollup) ==
    LET v == Displayed(rollup)
    IN  [average |-> MeanRat(v),
         highest_expense |-> v[idxmax(v)],
         highest |-> rollup[idxmax(v)].key,
         lowest_expense |-> v[idxmin(v)],
         lowest |-> rollup[idxmin(v)].key]

\* lines 227-236: per month, the mean of the daily totals and of the daily counts
monthly_avg(daily) ==
    LET months == SortedInts({MonthOf(daily[g].key) : g \in DOMAIN daily})
    IN  [m \in 1..Len(months) |->
            LET days == {g \in DOMAIN daily : MonthOf(daily[g].key) = months[m]}
                d == daily[CHOOSE g \in days : TRUE].Expenditure_Display.d
            IN  [Month |-> months[m],
                 Average_Daily_Expenditure |->
                     Rat(SumOver(days, [g \in DOMAIN daily |-> daily[g].Expenditure_Display.n]),
                         d * Cardinality(days)),
                 Average_Daily_Transactions |->
                     Rat(SumOver(days, [g \in DOMAIN daily |-> daily[g].Transaction_Count]),
                         Cardinality(days))]]

\* line 121: .agg on 'Description' raises KeyError when the column is missing
DailyRaises(f) == "Description" \notin f.cols

Rollup(frame, table) ==
    IF frame = <<>>
    THEN [rollup |-> <<>>, table |-> <<>>, extremes |-> None]
    ELSE [rollup |-> frame, table |-> table, extremes |-> Some(Extremes(frame))]

\* ----------------------------------------------------------------- payees
\* expense_df['Description'].apply(extract_payee), tabulated per description
PayeeLabel == [d \in PayeeDescriptions |-> extract_payee(d)]

\* lines 454-464: grouped by label in ascending label order
payee_totals(df, cur) ==
    LET rows == expense_rows(df)
        labels == SortedStrs({PayeeLabel[df[i].Description] : i \in rows})
    IN  [g \in 1..Len(labels) |->
            LET members == {i \in rows : PayeeLabel[df[i].Description] = labels[g]}
                total == Abs(SumOver(members, AmountOf(df)))
            IN  [Payee |-> labels[g],
                 Amount |-> total,
                 Transaction_Count |-> Cardinality(members),
                 Amount_Display |-> convert_amount(cur, total)]]

RemoveAt(frame, k) == SubSeq(frame, 1, k - 1) \o SubSeq(frame, k + 1, Len(frame))

\* variant: keep='last', rows of equal value in the reverse order of the frame
RECURSIVE nlargest_keep_last(_, _)
nlargest_keep_last(k, frame) ==
    IF k = 0 \/ frame = <<>> THEN <<>>
    ELSE LET last == idxmax_last([g \in DOMAIN frame |-> frame[g].Amount_Display])
         IN  <<frame[last]>> \o nlargest_keep_last(k - 1, RemoveAt(frame, last))

\* DataFrame.nlargest(k, 'Amount_Display') with keep='first': descending by
\* value, rows of equal value in the order of the frame
RECURSIVE nlargest(_, _)
nlargest(k, frame) ==
    IF k = 0 \/ frame = <<>> THEN <<>>
    ELSE LET first == idxmax([g \in DOMAIN frame |-> frame[g].Amount_Display])
         IN  <<frame[first]>> \o nlargest(k - 1, RemoveAt(frame, first))

\* variant: head(N) of the grouped frame instead of nlargest
top_20_payees_head(df, cur, top) ==
    LET t == payee_totals(df, cur)
    IN  IF Len(t) <= top THEN t ELSE SubSeq(t, 1, top)
top_20_payees(df, cur, top) == nlargest(top, payee_totals(df, cur))

\* lines 505-511
summary_table(top) ==
    [g \in DOMAIN top |->
        [Payee_Name |-> top[g].Payee,
         Total_Paid |-> Round2(top[g].Amount_Display),
         Number_of_Transactions |-> top[g].Transaction_Count]]

\* lines 515-524
PayeeStats(top) ==
    [total_paid |->
         Rat(SumSeq([g \in DOMAIN top |-> top[g].Amount_Display.n]), top[1].Amount_Display.d),
     avg_per_payee |-> MeanRat([g \in DOMAIN top |-> top[g].Amount_Display]),
     total_transactions |-> SumSeq([g \in DOMAIN top |-> top[g].Transaction_Count])]

PayeeTables(top) ==
    [top_20_payees |-> top, summary_table |-> summary_table(top), stats |-> Some(PayeeStats(top))]

\* lines 427-529
Payees(df, cur, top) ==
    IF expense_rows(df) = {}
    THEN [top_20_payees |-> <<>>, summary_table |-> <<>>, stats |-> None]
    ELSE PayeeTables(top_20_payees(df, cur, top))

\* ----------------------------------------------------- income vs expenses
\* variant: how='inner', only the months that have both income and expenses
monthly_summary_pkr_inner(df) ==
    LET income_rows == {i \in DOMAIN df : df[i].Amount > 0}
        month == [i \in DOMAIN df |-> MonthOf(df[i].Date)]
        months == SortedInts({month[i] : i \in income_rows}
                             \cap {month[i] : i \in expense_rows(df)})
    IN  [m \in 1..Len(months) |->
            [Month |-> months[m],
             Income |-> SumOver({i \in income_rows : month[i] = months[m]}, AmountOf(df)),
             Expenses |->
                 Abs(SumOver({i \in expense_rows(df) : month[i] = months[m]}, AmountOf(df)))]]

\* lines 534-551: outer merge on Month, missing side filled with 0
monthly_summary_pkr(df) ==
    LET income_rows == {i \in DOMAIN df : df[i].Amount > 0}
        month == [i \in DOMAIN df |-> MonthOf(df[i].Date)]
        months == SortedInts({month[i] : i \in income_rows \cup expense_rows(df)})
    IN  [m \in 1..Len(months) |->
            [Month |-> months[m],
             Income |-> SumOver({i \in income_rows : month[i] = months[m]}, AmountOf(df)),
             Expenses |->
                 Abs(SumOver({i \in expense_rows(df) : month[i] = months[m]}, AmountOf(df)))]]

monthly_summary(df, cur) ==
    LET pkr == monthly_summary_pkr(df)
    IN  [m \in DOMAIN pkr |->
            pkr[m] @@ [Income_Display |-> convert_amount(cur, pkr[m].Income),
                       Expenses_Display |-> convert_amount(cur, pkr[m].Expenses)]]

\* ------------------------------------------------------ recent transactions
\* lines 586-588
display_df(df, rorder, cur) ==
    LET shown == IF Len(rorder) <= RecentRows THEN rorder ELSE SubSeq(rorder, 1, RecentRows)
    IN  [k \in DOMAIN shown |->
            [Date |-> df[shown[k]].Date,
             Description |-> df[shown[k]].Description,
             Amount |-> convert_amount(cur, df[shown[k]].Amount)]]

\* ------------------------------------------------------------- the script
\* currency, uploaded_file: the session's selection and the uploader's file;
\* page, view: what the last run rendered; top_n: the N of nlargest;
\* sort_ties: how the build's sort orders equal dates; first_run: the first
\* run on a file as it was rendered, kept for comparison by SpecRepeat only
VARIABLES currency, uploaded_file, top_n, sort_ties, page, view, first_run

vars == <<currency, uploaded_file, top_n, sort_ties, page, view, first_run>>

\* nothing computed: the page of a run without a file
Blank ==
    [summary |-> None, balance |-> None, daily |-> None,
     monthly_avg |-> None, yearly |-> None, monthly |-> None, payees |-> None,
     monthly_summary |-> None, recent |-> None]

\* how far the try block of lines 48-592 gets: 0 raised while loading,
\* 1 raised in the balance section, 2 raised in the daily section, 3 completed
Stage(f) ==
    IF LoadRaises(f) THEN 0
    ELSE IF BalanceRaises(f) THEN 1
    ELSE IF DailyRaises(f) THEN 2
    ELSE 3

\* lines 594-596
ErrorPage == <<"error", "columns_hint">>

BalancePage(f) ==
    IF "Available Balance" \in f.cols
    THEN <<"balance_chart">> \o (IF BalanceRaises(f) THEN <<>> ELSE <<"current_balance">>)
    ELSE <<"balance_chart", "calculated_balance_info">>

DailyPage(df) ==
    IF daily_expenses_pkr(df) # <<>>
    THEN <<"daily_chart", "daily_table", "daily_stats", "monthly_avg_chart", "monthly_avg_table">>
    ELSE <<"no_daily_info">>
YearlyPage(df) ==
    IF yearly_expenses_pkr(df) # <<>>
    THEN <<"yearly_chart", "yearly_stats", "yearly_table">>
    ELSE <<"no_yearly_info">>
MonthlyPage(df) ==
    IF monthly_expenses_bar_pkr(df) # <<>>
    THEN <<"monthly_chart", "monthly_stats">>
    ELSE <<"no_monthly_info">>
PayeePage(df) ==
    IF expense_rows(df) # {}
    THEN <<"payee_chart", "payee_table", "payee_stats">>
    ELSE <<"no_payee_info">>
ComparisonPage(df) ==
    IF monthly_summary_pkr(df) # <<>> THEN <<"comparison_chart">> ELSE <<>>

\* what one run of the script renders, in order (st.* calls of lines 47-598);
\* file is None or Some(f)
RunPage(file) ==
    IF file = None THEN <<"upload_info">>
    ELSE LET f == file[1]
         IN  IF Stage(f) = 0 THEN ErrorPage
             ELSE <<"success", "summary">> \o BalancePage(f) \o
                  (IF Stage(f) < 3 THEN ErrorPage
                   ELSE DailyPage(f.rows) \o YearlyPage(f.rows) \o MonthlyPage(f.rows) \o
                        PayeePage(f.rows) \o ComparisonPage(f.rows) \o
                        <<"recent_transactions">>)

\* the figures one run computes and shows
RunView(file, cur, top, order, rorder) ==
    IF file = None \/ Stage(file[1]) = 0 THEN Blank
    ELSE LET f == file[1]
             df == f.rows
             full == Stage(f) = 3
             daily == daily_expenses(df, cur)
             yearly == yearly_expenses(df, cur)
         IN  [summary |-> Some(Summary(df, cur)),
              balance |-> Some(Balance(f, order, cur)),
              daily |-> IF full THEN Some(Rollup(daily, daily_table(daily))) ELSE None,
              monthly_avg |-> IF full THEN Some(monthly_avg(daily)) ELSE None,
              yearly |-> IF full THEN Some(Rollup(yearly, yearly_table(yearly))) ELSE None,
              monthly |->
                  IF full THEN Some(Rollup(monthly_expenses_bar(df, cur), <<>>)) ELSE None,
              payees |-> IF full THEN Some(Payees(df, cur, top)) ELSE None,
              monthly_summary |-> IF full THEN Some(monthly_summary(df, cur)) ELSE None,
              recent |-> IF full THEN Some(display_df(df, rorder, cur)) ELSE None]

\* the sorted orders a run computes: df_sorted (line 83) when the load
\* succeeded, recent_df (line 586) when the run reaches it
SortedOrder(file, ties) ==
    IF file # None /\ Stage(file[1]) > 0 THEN sort_values(file[1].rows, ties) ELSE <<>>
RecentOrder(file, ties) ==
    IF file # None /\ Stage(file[1]) = 3 THEN sort_values_descending(file[1].rows, ties)
    ELSE <<>>

\* variant: the figures are computed before the button press is processed
Rerun_stale(file, cur) ==
    /\ page' = RunPage(file)
    /\ view' = RunView(file, currency, top_n,
                       SortedOrder(file, sort_ties), RecentOrder(file, sort_ties))

\* one run of the script (lines 47-598) on the uploader's file with currency cur
Rerun(file, cur) ==
    /\ page' = RunPage(file)
    /\ view' = RunView(file, cur, top_n,
                       SortedOrder(file, sort_ties), RecentOrder(file, sort_ties))

Init ==
    /\ currency = "USD"
    /\ uploaded_file = None
    /\ top_n = TopN
    /\ sort_ties \in TieOrders
    /\ page = <<"upload_info">>
    /\ view = Blank
    /\ first_run = None

\* the user chooses the CSV file f in the empty uploader; the script runs
UploadFile(f) ==
    /\ uploaded_file = None
    /\ uploaded_file' = Some(f)
    /\ Rerun(Some(f), currency)
    /\ UNCHANGED <<currency, top_n, sort_ties>>

\* the user clears the uploader; the script runs without a file
RemoveFile ==
    /\ uploaded_file # None
    /\ uploaded_file' = None
    /\ Rerun(None, currency)
    /\ UNCHANGED <<currency, top_n, sort_ties>>

\* the user presses the currency button (lines 25-26); the script runs
ToggleCurrency ==
    /\ currency' = IF currency = "USD" THEN "PKR" ELSE "USD"
    /\ Rerun(uploaded_file, currency')
    /\ UNCHANGED <<uploaded_file, top_n, sort_ties>>

Upload ==
    /\ \E cols \in SUBSET Columns :
       \E badDate \in BadFlags(cols, "Date") :
       \E badAmount \in BadFlags(cols, "Amount") :
       \E len \in RowCounts(badDate, badAmount, MaxRows) :
       \E rows \in [1..len -> RowsOf(cols, badDate, badAmount, Descriptions)] :
           UploadFile(File(cols, badDate, badAmount, rows))
    /\ UNCHANGED first_run

Remove == RemoveFile /\ UNCHANGED first_run

Toggle == ToggleCurrency /\ UNCHANGED first_run

Next == Upload \/ Remove \/ Toggle

Spec == Init /\ [][Next]_vars

\* ------------------------------------------------- top-N selection, alone
\* The payee section (lines 427-524) as a function of the expense table, the
\* currency and N: Init draws the three, ShowPayees applies the section.
PayeeAmounts == {-2, -1, 1}
TopChoices == (1..MaxTopN) \cup {TopN}

InitTopN ==
    /\ currency \in {"USD", "PKR"}
    /\ top_n \in TopChoices
    /\ \E len \in 0..MaxPayeeRows :
       \E rows \in [1..len -> [Date : {20230101}, Description : PayeeDescriptions,
                               Amount : PayeeAmounts, Balance : {0}]] :
           uploaded_file = Some(File(Required, FALSE, FALSE, rows))
    /\ sort_ties = "kept"
    /\ page = <<>>
    /\ view = Blank
    /\ first_run = None

ShowPayees ==
    /\ page = <<>>
    /\ page' = <<"top_payees">> \o PayeePage(uploaded_file[1].rows)
    /\ view' = [Blank EXCEPT !.payees = Some(Payees(uploaded_file[1].rows, currency, top_n))]
    /\ UNCHANGED <<currency, uploaded_file, top_n, sort_ties, first_run>>

NextTopN == ShowPayees

SpecTopN == InitTopN /\ [][NextTopN]_vars

\* ------------------------------------------------------- conversion, alone
\* convert_amount (lines 40-45) as a function of the selection and a number:
\* Init draws a PKR amount, ConvertAmount sets the selection and applies the
\* function to the current figure; page records the selections used.
MaxAmount == 12
MaxConversions == 2

InitConvert ==
    /\ currency = "USD"
    /\ uploaded_file = None
    /\ top_n = TopN
    /\ sort_ties = "kept"
    /\ first_run = None
    /\ page = <<>>
    /\ \E x \in (-MaxAmount)..MaxAmount : view = [x |-> x, amount |-> Rat(x, 1)]

ConvertAmount ==
    /\ Len(page) < MaxConversions
    /\ \E target \in {"USD", "PKR"} :
        /\ currency' = target
        /\ page' = Append(page, target)
        /\ view' = [view EXCEPT !.amount = convert_amount_of(target, view.amount)]
    /\ UNCHANGED <<uploaded_file, top_n, sort_ties, first_run>>

NextConvert == ConvertAmount

SpecConvert == InitConvert /\ [][NextConvert]_vars

\* ------------------------------------------------------- repeated runs
\* The script over tables whose rows all share one date, so that every table
\* of two rows exercises the sort's order of equal dates.  The first run on a
\* file is recorded as rendered; repeated marks that a later run had the same
\* file and the same selection.
MaxRepeatRows == 2
RepeatAmounts == {-1, 1}
RepeatColumns == {Required, Columns}
\* the rows differ in what the balance series is made of: the recorded
\* balances when the column is present, the amounts when it is not
RepeatRowsOf(cols) ==
    [Date : {20230101},
     Description : {Desc_to_B},
     Amount : IF "Available Balance" \in cols THEN {-1} ELSE RepeatAmounts,
     Balance : CellsOf("Available Balance" \in cols, Balances, 0)]

Record ==
    first_run' =
        IF uploaded_file' = None THEN first_run
        ELSE IF first_run = None
        THEN Some([file |-> uploaded_file'[1], currency |-> currency',
                   page |-> page', view |-> view', repeated |-> FALSE])
        ELSE IF uploaded_file'[1] = first_run[1].file /\ currency' = first_run[1].currency
        THEN Some([first_run[1] EXCEPT !.repeated = TRUE])
        ELSE first_run

InitRepeat ==
    /\ currency = "USD"
    /\ uploaded_file = None
    /\ top_n = TopN
    /\ sort_ties \in TieOrders
    /\ page = <<"upload_info">>
    /\ view = Blank
    /\ first_run = None

UploadAgain ==
    /\ \E cols \in RepeatColumns :
       \E len \in 0..MaxRepeatRows :
       \E rows \in [1..len -> RepeatRowsOf(cols)] :
           UploadFile(File(cols, FALSE, FALSE, rows))
    /\ Record

RemoveAgain == RemoveFile /\ Record

ToggleAgain == ToggleCurrency /\ Record

NextRepeat == UploadAgain \/ RemoveAgain \/ ToggleAgain

SpecRepeat == InitRepeat /\ [][NextRepeat]_vars

\* --------------------------------------------------- payee extraction, alone
\* extract_payee (lines 431-449) as a function of the description: Init draws
\* a description, ExtractPayee applies the function.  A description is a
\* prefix, a phrase, a run of spaces, a name and a suffix; Text_digits is a
\* word of 26 characters, so that descriptions of 30 and of 31 characters occur.
MaxSpaces == 2

Text_Money_Transferred_to ==
    <<"M","o","n","e","y"," ","T","r","a","n","s","f","e","r","r","e","d"," ","t","o">>
Text_MONEY_transferred_TO ==
    <<"M","O","N","E","Y"," ","t","r","a","n","s","f","e","r","r","e","d"," ","T","O">>
Text_to == <<"t","o">>
Text_Paid_to == <<"P","a","i","d"," ","t","o">>
Text_Transfer_to == <<"T","r","a","n","s","f","e","r"," ","t","o">>
Text_Into == <<"I","n","t","o">>
Text_Cash == <<"C","a","s","h">>
Text_ATM == <<"A","T","M"," ">>
Text_go_TO_market == <<"g","o"," ","T","O"," ","m","a","r","k","e","t","-">>
Text_A == <<"A">>
Text_Ali_Khan == <<"A","l","i"," ","K","h","a","n">>
Text_hyphen_B == <<"-","B">>
Text_ref == <<" ","-","9">>
Text_more_words == <<" ","a","n","d"," ","m","o","r","e"," ","w","o","r","d","s">>
Text_digits ==
    <<"0","1","2","3","4","5","6","7","8","9","0","1","2","3","4","5","6","7","8","9","0","1",
      "2","3","4","5">>

Prefixes == {<<>>, Text_ATM, Text_go_TO_market}
Phrases ==
    {Text_Money_Transferred_to, Text_MONEY_transferred_TO, Text_to, Text_Paid_to,
     Text_Transfer_to, Text_Into, Text_Cash}
Names == {<<>>, Text_A, Text_Ali_Khan, Text_hyphen_B}
Suffixes == {<<>>, Text_ref, Text_more_words, Text_digits}
Spaces(k) == [i \in 1..k |-> " "]

InitPayee ==
    /\ currency = "USD"
    /\ uploaded_file = None
    /\ top_n = TopN
    /\ sort_ties = "kept"
    /\ first_run = None
    /\ page = <<>>
    /\ \E prefix \in Prefixes : \E phrase \in Phrases : \E k \in 0..MaxSpaces :
       \E name \in Names : \E suffix \in Suffixes :
           view = [description |-> prefix \o phrase \o Spaces(k) \o name \o suffix,
                   payee |-> None]

ExtractPayee ==
    /\ view.payee = None
    /\ view' = [view EXCEPT !.payee = Some(extract_payee(view.description))]
    /\ page' = <<"payee">>
    /\ UNCHANGED <<currency, uploaded_file, top_n, sort_ties, first_run>>

NextPayee == ExtractPayee

SpecPayee == InitPayee /\ [][NextPayee]_vars

\* ================================================================ claims
\* the table of the run on the page, when the load succeeded
Loaded == uploaded_file # None /\ view.summary # None
df_shown == uploaded_file[1].rows
Completed == Loaded /\ view.recent # None

\* C1: the summary metrics satisfy total_income - total_expenses = net_flow,
\* in PKR and in the displayed currency; an amount of 0 counts toward neither.
C1_IncomeMinusExpensesIsNetFlow ==
    Loaded =>
        LET m == view.summary[1]
        IN  /\ m.total_income_pkr - m.total_expenses_pkr = m.net_flow_pkr
            /\ m.total_income.d = m.net_flow.d
            /\ m.total_expenses.d = m.net_flow.d
            /\ m.total_income.n - m.total_expenses.n = m.net_flow.n
            /\ m.total_income_pkr >= 0
            /\ m.total_expenses_pkr >= 0

\* a table with income, an expense and the summary on the page
C1_Witness ==
    /\ Loaded
    /\ view.summary[1].total_income_pkr > 0
    /\ view.summary[1].total_expenses_pkr > 0
    /\ view.summary[1].net_flow_pkr < 0

\* C2: for each granularity, a non-empty expense rollup sums to total_expenses:
\* every expense transaction is in exactly one bucket.
RollupTotal(rollup) == SumSeq([g \in DOMAIN rollup |-> rollup[g].Expenditure])
RollupDisplayTotal(rollup) == SumSeq([g \in DOMAIN rollup |-> rollup[g].Expenditure_Display.n])
C2_RollupsPartitionExpenses ==
    Completed =>
        \A r \in {view.daily[1].rollup, view.yearly[1].rollup, view.monthly[1].rollup} :
            r # <<>> =>
                /\ RollupTotal(r) = view.summary[1].total_expenses_pkr
                /\ RollupDisplayTotal(r) = view.summary[1].total_expenses.n
                /\ \A g \in DOMAIN r :
                       r[g].Expenditure_Display.d = view.summary[1].total_expenses.d

\* two expenses on two days of one month: two daily buckets, one monthly bucket
C2_Witness ==
    /\ Completed
    /\ Len(view.daily[1].rollup) = 2
    /\ Len(view.monthly[1].rollup) = 1
    /\ view.summary[1].total_expenses_pkr = 3

\* the rows of the daily and yearly tables on the page
ExpenseTableRows ==
    IF Completed
    THEN {view.daily[1].table[g] : g \in DOMAIN view.daily[1].table}
         \cup {view.yearly[1].table[g] : g \in DOMAIN view.yearly[1].table}
    ELSE {}

ExtremeRollups ==
    IF Completed
    THEN {r \in {view.daily[1], view.yearly[1], view.monthly[1]} : r.extremes # None}
    ELSE {}

\* C4: the reported highest (lowest) bucket has the maximum (minimum) total,
\* and among buckets of that total it is the one with the earliest key.
C4_ExtremesAreEarliestOfTies ==
    \A r \in ExtremeRollups :
        LET e == r.extremes[1]
            b == r.rollup
        IN  /\ \E g \in DOMAIN b :
                /\ b[g].key = e.highest
                /\ e.highest_expense = b[g].Expenditure_Display
                /\ \A h \in DOMAIN b : b[h].Expenditure <= b[g].Expenditure
                /\ \A h \in DOMAIN b :
                       b[h].Expenditure = b[g].Expenditure => b[g].key <= b[h].key
            /\ \E g \in DOMAIN b :
                /\ b[g].key = e.lowest
                /\ e.lowest_expense = b[g].Expenditure_Display
                /\ \A h \in DOMAIN b : b[h].Expenditure >= b[g].Expenditure
                /\ \A h \in DOMAIN b :
                       b[h].Expenditure = b[g].Expenditure => b[g].key <= b[h].key

\* two daily buckets of equal total: both extremes name the first day
C4_Witness ==
    /\ Completed
    /\ Len(view.daily[1].rollup) = 2
    /\ view.daily[1].rollup[1].Expenditure = view.daily[1].rollup[2].Expenditure
    /\ view.daily[1].extremes[1].highest = view.daily[1].rollup[1].key
    /\ view.daily[1].extremes[1].lowest = view.daily[1].rollup[1].key

\* the payee table on the page, and the grouped payees it was selected from
PayeesShown == uploaded_file # None /\ view.payees # None
top_shown == view.payees[1].top_20_payees
ExpenseLabels == {PayeeLabel[df_shown[i].Description] : i \in expense_rows(df_shown)}
LabelTotal(label) ==
    Abs(SumOver({i \in expense_rows(df_shown) : PayeeLabel[df_shown[i].Description] = label},
                AmountOf(df_shown)))
\* the position in the input of a payee's first expense transaction
FirstSeen(label) ==
    CHOOSE i \in expense_rows(df_shown) :
        /\ PayeeLabel[df_shown[i].Description] = label
        /\ \A j \in expense_rows(df_shown) :
               PayeeLabel[df_shown[j].Description] = label => i <= j
LabelsShown == {top_shown[g].Payee : g \in DOMAIN top_shown}

\* C5 as stated: among payees of equal total the one first met in the input
\* ranks first, and at the cut it is the one kept.
C5_TiesKeepInputOrder ==
    PayeesShown =>
        /\ \A g, h \in DOMAIN top_shown :
               (g < h /\ top_shown[g].Amount = top_shown[h].Amount)
                   => FirstSeen(top_shown[g].Payee) < FirstSeen(top_shown[h].Payee)
        /\ \A out \in ExpenseLabels \ LabelsShown : \A in \in LabelsShown :
               LabelTotal(out) = LabelTotal(in) => FirstSeen(in) < FirstSeen(out)

\* C5 amended: among payees of equal total the one with the smaller label (the
\* order of the grouped frame) ranks first, and at the cut it is the one kept.
C5_TiesKeepLabelOrder ==
    PayeesShown =>
        /\ \A g, h \in DOMAIN top_shown :
               (g < h /\ top_shown[g].Amount = top_shown[h].Amount)
                   => StrLess(top_shown[g].Payee, top_shown[h].Payee)
        /\ \A out \in ExpenseLabels \ LabelsShown : \A in \in LabelsShown :
               LabelTotal(out) = LabelTotal(in) => StrLess(in, out)

\* three payees, two of them tied at the cut of N = 1 or tied inside N = 2,
\* the tied payee of the larger label met first in the input
C5_Witness ==
    /\ PayeesShown
    /\ Cardinality(ExpenseLabels) = 3
    /\ top_n \in {1, 2}
    /\ \E a, b \in ExpenseLabels :
        /\ LabelTotal(a) = LabelTotal(b)
        /\ StrLess(a, b)
        /\ FirstSeen(b) < FirstSeen(a)
        /\ a \in LabelsShown
        /\ (top_n = 1 => b \notin LabelsShown)
        /\ (top_n = 2 => b \in LabelsShown)

\* C6: at most N rows (N = 20 in the source), one row per distinct payee label,
\* totals non-negative and non-increasing, and no payee left out has a total
\* strictly greater than a payee in the result.
C6_TopPayeesShape ==
    PayeesShown =>
        /\ Len(top_shown) <= top_n
        /\ (top_n = TopN => Len(top_shown) <= 20)
        /\ Len(top_shown) =
               (IF Cardinality(ExpenseLabels) <= top_n THEN Cardinality(ExpenseLabels)
                ELSE top_n)
        /\ \A g, h \in DOMAIN top_shown : g # h => top_shown[g].Payee # top_shown[h].Payee
        /\ \A g \in DOMAIN top_shown :
            /\ top_shown[g].Payee \in ExpenseLabels
            /\ top_shown[g].Amount = LabelTotal(top_shown[g].Payee)
            /\ top_shown[g].Amount >= 0
            /\ top_shown[g].Amount_Display.n >= 0
            /\ top_shown[g].Amount_Display = convert_amount(currency, top_shown[g].Amount)
        /\ \A g, h \in DOMAIN top_shown : g < h => top_shown[g].Amount >= top_shown[h].Amount
        /\ \A out \in ExpenseLabels \ LabelsShown : \A in \in LabelsShown :
               LabelTotal(out) <= LabelTotal(in)

\* three payees cut to N = 2: the one left out is the smallest, met first in the input
C6_Witness ==
    /\ PayeesShown
    /\ top_n = 2
    /\ Cardinality(ExpenseLabels) = 3
    /\ Len(top_shown) = 2
    /\ \E out \in ExpenseLabels \ LabelsShown :
        /\ LabelTotal(out) < top_shown[2].Amount
        /\ FirstSeen(out) = 1

InPage(tag) == \E k \in DOMAIN page : page[k] = tag
HasBalanceColumn == "Available Balance" \in uploaded_file[1].cols
PrefixSum(order, k) == SumSeq([j \in 1..k |-> df_shown[order[j]].Amount])

\* C7: without an 'Available Balance' column the balance series is the
\* cumulative sum of the amounts in date-ascending order, starting from 0:
\* its k-th point is the sum of the first k amounts in date order.
C7_FallbackIsCumulativeSum ==
    (Loaded /\ ~HasBalanceColumn) =>
        LET b == view.balance[1]
        IN  /\ ~b.recorded
            /\ b.current_balance = None
            /\ InPage("calculated_balance_info")
            /\ Len(b.series) = Len(df_shown)
            /\ \E order \in AscendingOrders(df_shown) :
                   \A k \in DOMAIN b.series :
                       /\ b.dates[k] = df_shown[order[k]].Date
                       /\ b.series[k] = convert_amount(currency, PrefixSum(order, k))

\* two rows filed latest first, of different amounts: the series starts with
\* the amount of the second row
C7_Witness ==
    /\ Loaded
    /\ ~HasBalanceColumn
    /\ Len(df_shown) = 2
    /\ df_shown[1].Date > df_shown[2].Date
    /\ df_shown[1].Amount = 1
    /\ df_shown[2].Amount = -2
    /\ view.balance[1].series[1].n = -2
    /\ view.balance[1].series[2].n = -1

LatestDate == CHOOSE d \in {df_shown[i].Date : i \in DOMAIN df_shown} :
                  \A i \in DOMAIN df_shown : df_shown[i].Date <= d

\* C8: with an 'Available Balance' column the balance series is the recorded
\* balances in date-ascending order, not recomputed from the amounts, and the
\* current balance is the recorded balance of a transaction of the latest
\* date, whatever the row order of the file.
C8_RecordedBalancesByDate ==
    (Loaded /\ HasBalanceColumn) =>
        LET b == view.balance[1]
        IN  /\ b.recorded
            /\ Len(b.series) = Len(df_shown)
            /\ \E order \in AscendingOrders(df_shown) :
                   \A k \in DOMAIN b.series :
                       /\ b.dates[k] = df_shown[order[k]].Date
                       /\ b.series[k] = convert_amount(currency, df_shown[order[k]].Balance)
            /\ b.current_balance # None =>
                   \E i \in DOMAIN df_shown :
                       /\ df_shown[i].Date = LatestDate
                       /\ b.current_balance[1] = convert_amount(currency, df_shown[i].Balance)
            /\ (df_shown # <<>>) => (b.current_balance # None /\ InPage("current_balance"))

\* two rows filed latest first, of different balances: the current balance is
\* the balance of the first row of the file
C8_Witness ==
    /\ Loaded
    /\ HasBalanceColumn
    /\ Len(df_shown) = 2
    /\ df_shown[1].Date > df_shown[2].Date
    /\ df_shown[1].Balance # df_shown[2].Balance
    /\ view.balance[1].current_balance # None
    /\ view.balance[1].current_balance[1].n = df_shown[1].Balance
    /\ view.balance[1].series[1].n = df_shown[2].Balance

\* a load the claim calls failed: a required column is missing, or a Date or
\* Amount value cannot be parsed
LoadFails(f) == ~(Required \subseteq f.cols) \/ f.badDate \/ f.badAmount

\* C9: a failed load is all-or-nothing: the page shows the error and no
\* partial result of that load before or after it.
C9_FailedLoadShowsOnlyError ==
    (uploaded_file # None /\ LoadFails(uploaded_file[1])) =>
        /\ page = ErrorPage
        /\ view = Blank

\* C10: a table without a transaction of amount < 0 ends every rollup section
\* and the payee section in its placeholder, computes no extreme, and the run
\* reaches the end without entering the error handler.
C10_NoExpensesIsNoError ==
    (/\ uploaded_file # None
     /\ ~LoadFails(uploaded_file[1])
     /\ expense_rows(uploaded_file[1].rows) = {}) =>
        /\ ~InPage("error")
        /\ InPage("no_daily_info")
        /\ InPage("no_yearly_info")
        /\ InPage("no_monthly_info")
        /\ InPage("no_payee_info")
        /\ InPage("recent_transactions")
        /\ view.daily # None /\ view.daily[1].extremes = None
        /\ view.yearly # None /\ view.yearly[1].extremes = None
        /\ view.monthly # None /\ view.monthly[1].extremes = None

\* the conversion of the run: identity for PKR, division by the rate for USD
Converted(pkr) == IF currency = "PKR" THEN Rat(pkr, 1) ELSE Rat(pkr, EXCHANGE_RATE)

\* the figures of one rollup section are the conversions of its PKR totals
RollupConverted(r) ==
    /\ \A g \in DOMAIN r.rollup :
           r.rollup[g].Expenditure_Display = Converted(r.rollup[g].Expenditure)
    /\ \A t \in DOMAIN r.table :
           \E g \in DOMAIN r.rollup :
               /\ r.rollup[g].key = r.table[t].key
               /\ r.table[t].Total_Expenditure = Round2(Converted(r.rollup[g].Expenditure))
    /\ r.extremes # None =>
           /\ \E g \in DOMAIN r.rollup :
                  r.extremes[1].highest_expense = Converted(r.rollup[g].Expenditure)
           /\ \E g \in DOMAIN r.rollup :
                  r.extremes[1].lowest_expense = Converted(r.rollup[g].Expenditure)
           /\ r.extremes[1].average.n = RollupTotal(r.rollup)
           /\ r.extremes[1].average.d = Converted(0).d * Len(r.rollup)

\* the monthly averages are the conversions of the PKR daily totals, averaged
MonthlyAvgConverted ==
    \A m \in DOMAIN view.monthly_avg[1] :
        LET row == view.monthly_avg[1][m]
            daily == view.daily[1].rollup
            days == {g \in DOMAIN daily : MonthOf(daily[g].key) = row.Month}
        IN  /\ row.Average_Daily_Expenditure.n =
                   SumOver(days, [g \in DOMAIN daily |-> daily[g].Expenditure])
            /\ row.Average_Daily_Expenditure.d = Converted(0).d * Cardinality(days)

PayeesConverted ==
    LET p == view.payees[1]
    IN  /\ \A g \in DOMAIN p.top_20_payees :
            /\ p.top_20_payees[g].Amount_Display = Converted(p.top_20_payees[g].Amount)
            /\ p.summary_table[g].Total_Paid = Round2(Converted(p.top_20_payees[g].Amount))
        /\ p.stats # None =>
               p.stats[1].total_paid =
                   Converted(SumSeq([g \in DOMAIN p.top_20_payees |-> p.top_20_payees[g].Amount]))

BalanceConverted ==
    LET b == view.balance[1]
    IN  /\ \E order \in AscendingOrders(df_shown) :
               \A k \in DOMAIN b.series :
                   b.series[k] = Converted(IF b.recorded THEN df_shown[order[k]].Balance
                                           ELSE PrefixSum(order, k))
        /\ b.current_balance # None =>
               \E i \in DOMAIN df_shown : b.current_balance[1] = Converted(df_shown[i].Balance)

\* C11: within one run every displayed monetary figure is its PKR value passed
\* through the same conversion: unchanged when the selection is PKR, divided by
\* 280 when it is USD (table totals are that figure shown with two decimals).
C11_OneConversionPerRun ==
    /\ currency \in {"USD", "PKR"}
    /\ Loaded =>
        /\ view.summary[1].total_income = Converted(view.summary[1].total_income_pkr)
        /\ view.summary[1].total_expenses = Converted(view.summary[1].total_expenses_pkr)
        /\ view.summary[1].net_flow = Converted(view.summary[1].net_flow_pkr)
        /\ view.summary[1].net_flow_pkr = SumSeq([i \in DOMAIN df_shown |-> df_shown[i].Amount])
        /\ BalanceConverted
    /\ Completed =>
        /\ RollupConverted(view.daily[1])
        /\ RollupConverted(view.yearly[1])
        /\ RollupConverted(view.monthly[1])
        /\ MonthlyAvgConverted
        /\ PayeesConverted
        /\ \A m \in DOMAIN view.monthly_summary[1] :
            /\ view.monthly_summary[1][m].Income_Display =
                   Converted(view.monthly_summary[1][m].Income)
            /\ view.monthly_summary[1][m].Expenses_Display =
                   Converted(view.monthly_summary[1][m].Expenses)
        /\ \E rorder \in DescendingOrders(df_shown) :
               \A k \in DOMAIN view.recent[1] :
                   view.recent[1][k].Amount = Converted(df_shown[rorder[k]].Amount)

\* after a press of the button: a completed run in PKR over a table with
\* recorded balances, an income and an expense, every figure undivided
C11_Witness ==
    /\ Completed
    /\ currency = "PKR"
    /\ HasBalanceColumn
    /\ view.summary[1].total_income = Rat(1, 1)
    /\ view.summary[1].total_expenses = Rat(2, 1)
    /\ view.balance[1].current_balance[1] = Rat(5, 1)
    /\ view.daily[1].rollup[1].Expenditure_Display = Rat(2, 1)
    /\ view.payees[1].top_20_payees[1].Amount_Display = Rat(2, 1)
    /\ view.recent[1][1].Amount.d = 1

\* the amount was converted to the secondary currency, and the result was
\* converted with the base currency as target
RoundTripDone == page = <<"USD", "PKR">>

\* C12 as stated: the round trip returns x within rounding tolerance (half a
\* cent here; any tolerance below 279/280 of a unit gives the same verdict).
C12_RoundTripReturnsX ==
    RoundTripDone =>
        200 * Abs(view.amount.n - view.x * view.amount.d) <= view.amount.d

\* C12 amended: the conversion with the base currency as target is the
\* identity, so the round trip returns x divided by the rate: the result
\* times 280 is x, and the result is x only for x = 0.
C12_RoundTripDividesByRate ==
    RoundTripDone =>
        /\ view.amount = Rat(view.x, EXCHANGE_RATE)
        /\ (RatEq(view.amount, Rat(view.x, 1)) <=> view.x = 0)

\* the round trip of 7 PKR ends at 7/280
C12_Witness ==
    /\ RoundTripDone
    /\ view.x = 7
    /\ view.amount = Rat(7, EXCHANGE_RATE)

\* the run on the page has the file and the selection of the recorded first run
SameInputAsFirstRun ==
    /\ first_run # None
    /\ uploaded_file = Some(first_run[1].file)
    /\ currency = first_run[1].currency

\* a step changes the selection only by flipping it, and only when the file
\* stays as it is (a press of the button); a step that changes the file
\* (a table is processed, or cleared) leaves the selection alone
SelectionStep ==
    /\ currency' # currency =>
           /\ uploaded_file' = uploaded_file
           /\ currency' = (IF currency = "USD" THEN "PKR" ELSE "USD")
    /\ uploaded_file' # uploaded_file => currency' = currency

\* C13: a run over the same table with the same selection as an earlier run
\* renders the same page and the same figures, whatever runs and presses lie
\* between them; processing a table never changes the selection, only a press
\* of the button does, flipping it between USD and PKR.
C13_RunsAreRepeatable ==
    /\ [](SameInputAsFirstRun => (view = first_run[1].view /\ page = first_run[1].page))
    /\ [](currency \in {"USD", "PKR"})
    /\ [][SelectionStep]_vars

\* a table of two rows of one date and different amounts, first run in PKR
\* after a press, run again later on the same table and selection
C13_Witness ==
    /\ SameInputAsFirstRun
    /\ first_run[1].repeated
    /\ currency = "PKR"
    /\ Len(df_shown) = 2
    /\ df_shown[1].Amount # df_shown[2].Amount
    /\ view.balance[1].series[1].n = (IF sort_ties = "kept" THEN df_shown[1].Amount
                                      ELSE df_shown[2].Amount)

\* the sum of the amounts of month m that satisfy the sign, row by row
MonthAmounts(m, sign) ==
    SumSeq([i \in DOMAIN df_shown |->
               IF MonthOf(df_shown[i].Date) = m /\ df_shown[i].Amount * sign > 0
               THEN df_shown[i].Amount ELSE 0])
ActiveMonths == {MonthOf(df_shown[i].Date) : i \in {j \in DOMAIN df_shown : df_shown[j].Amount # 0}}

\* C14: the income-vs-expense table has exactly one row per month that has a
\* transaction of amount > 0 or of amount < 0, and no other row; rows are in
\* ascending month order; income is the sum of the positive amounts of the
\* month and expenses the absolute value of the sum of its negative amounts,
\* 0 on the side the month does not have.
C14_MonthlySummaryIsOuterJoin ==
    Completed =>
        LET t == view.monthly_summary[1]
        IN  /\ {t[m].Month : m \in DOMAIN t} = ActiveMonths
            /\ Len(t) = Cardinality(ActiveMonths)
            /\ \A m \in 1..(Len(t) - 1) : t[m].Month < t[m + 1].Month
            /\ \A m \in DOMAIN t :
                /\ t[m].Income = MonthAmounts(t[m].Month, 1)
                /\ t[m].Expenses = -MonthAmounts(t[m].Month, -1)
                /\ t[m].Income >= 0 /\ t[m].Expenses >= 0
                /\ t[m].Income > 0 \/ t[m].Expenses > 0

\* an expense filed before an income of an earlier month: the income-only
\* month comes first with expenses 0, the expense-only month with income 0
C14_Witness ==
    /\ Completed
    /\ Len(df_shown) = 2
    /\ df_shown[1].Date > df_shown[2].Date
    /\ Len(view.monthly_summary[1]) = 2
    /\ view.monthly_summary[1][1].Income = 1 /\ view.monthly_summary[1][1].Expenses = 0
    /\ view.monthly_summary[1][2].Income = 0 /\ view.monthly_summary[1][2].Expenses = 2

\* the patterns in the order the claims give them
ClaimedPatterns == <<Text_Money_Transferred_to, Text_to, Text_Paid_to, Text_Transfer_to>>
description_shown == view.description
PayeeExtracted == page = <<"payee">> /\ view.payee # None

\* the phrase stands at i in any letter case, whitespace follows it, and after
\* that whitespace comes a character that is not a hyphen
MatchStart(phrase, d, i) ==
    /\ i + Len(phrase) + 1 <= Len(d)
    /\ \A k \in 1..Len(phrase) : Lower(d[i + k - 1]) = Lower(phrase[k])
    /\ d[i + Len(phrase)] = " "
    /\ d[i + Len(phrase) + 1] # "-"
PatternMatches(phrase, d) == \E i \in 1..Len(d) : MatchStart(phrase, d, i)
LeftmostStart(phrase, d) ==
    CHOOSE i \in 1..Len(d) :
        MatchStart(phrase, d, i) /\ \A h \in 1..(i - 1) : ~MatchStart(phrase, d, h)
\* the run of characters from j up to the next hyphen
UpToHyphen(d, j) ==
    SubSeq(d, j, CHOOSE k \in j..Len(d) :
                     (\A h \in j..k : d[h] # "-") /\ (k = Len(d) \/ d[k + 1] = "-"))
\* a text without its leading and trailing whitespace
Trimmed(c) ==
    IF \A i \in DOMAIN c : c[i] = " " THEN <<>>
    ELSE SubSeq(c,
                CHOOSE a \in DOMAIN c : c[a] # " " /\ \A h \in 1..(a - 1) : c[h] = " ",
                CHOOSE b \in DOMAIN c : c[b] # " " /\ \A h \in (b + 1)..Len(c) : c[h] = " ")
\* X of the leftmost match of the phrase, trimmed
ClaimedLabel(phrase, d) ==
    Trimmed(UpToHyphen(d, LeftmostStart(phrase, d) + Len(phrase) + 1))

\* C15: the label is the trimmed capture (the characters after the phrase up
\* to the next hyphen) of the first of 'Money Transferred to', 'to', 'Paid to',
\* 'Transfer to', in that order and in any letter case, that matches the
\* description; a later pattern decides only when no earlier one matches.
C15_FirstPatternInOrderWins ==
    PayeeExtracted =>
        \A p \in DOMAIN ClaimedPatterns :
            (/\ PatternMatches(ClaimedPatterns[p], description_shown)
             /\ \A q \in 1..(p - 1) : ~PatternMatches(ClaimedPatterns[q], description_shown))
                => view.payee[1] = ClaimedLabel(ClaimedPatterns[p], description_shown)

\* 'Money Transferred to' and the generic 'to' both match, with different
\* captures; the label is the former's, and trimming shortened the capture
C15_Witness ==
    /\ PayeeExtracted
    /\ PatternMatches(ClaimedPatterns[1], description_shown)
    /\ PatternMatches(ClaimedPatterns[2], description_shown)
    /\ ClaimedLabel(ClaimedPatterns[1], description_shown)
           # ClaimedLabel(ClaimedPatterns[2], description_shown)
    /\ view.payee[1] = ClaimedLabel(ClaimedPatterns[1], description_shown)
    /\ view.payee[1] = Text_Ali_Khan
    /\ \E i \in DOMAIN description_shown :
           /\ description_shown[i] = "-"
           /\ description_shown[i - 1] = " "
           /\ description_shown[i - 2] = "n"

\* the positions where a word (a maximal run without whitespace) starts
WordStarts(d) == {i \in 1..Len(d) : d[i] # " " /\ (i = 1 \/ d[i - 1] = " ")}
WordFrom(d, s) ==
    SubSeq(d, s, CHOOSE e \in s..Len(d) :
                     (\A h \in s..e : d[h] # " ") /\ (e = Len(d) \/ d[e + 1] = " "))
FirstThreeWords(d, starts) ==
    WordFrom(d, starts[1]) \o <<" ">> \o WordFrom(d, starts[2]) \o <<" ">>
        \o WordFrom(d, starts[3])
NoPatternMatches ==
    \A p \in DOMAIN ClaimedPatterns : ~PatternMatches(ClaimedPatterns[p], description_shown)

\* C16: when no pattern matches, the label is the first three words joined by
\* single spaces and '...' if the description has more than three words;
\* otherwise the description unchanged if it has at most 30 characters, and
\* its first 30 characters and '...' if it is longer.  Every description gets
\* a label.
C16_FallbackLabel ==
    /\ page = <<"payee">> => view.payee # None
    /\ (PayeeExtracted /\ NoPatternMatches) =>
           view.payee[1] =
               (IF Cardinality(WordStarts(description_shown)) > 3
                THEN FirstThreeWords(description_shown,
                                     SortedInts(WordStarts(description_shown)))
                         \o <<".", ".", ".">>
                ELSE IF Len(description_shown) <= 30 THEN description_shown
                ELSE SubSeq(description_shown, 1, 30) \o <<".", ".", ".">>)

\* no pattern matches a description of two words and 31 characters: the
\* label is its first 30 characters and the ellipsis
C16_Witness ==
    /\ PayeeExtracted
    /\ NoPatternMatches
    /\ Cardinality(WordStarts(description_shown)) = 2
    /\ Len(description_shown) = 31
    /\ Len(view.payee[1]) = 33
    /\ SubSeq(view.payee[1], 1, 30) = SubSeq(description_shown, 1, 30)

====
